---- MODULE Spec2Model ----
(***************************************************************************)
(* Model of the Excel agent of src/app/page.tsx: the zustand store         *)
(* useAgentStore, the derived view of useAgent, and the two handlers of    *)
(* the ExcelAgent component (handleFileChange, handleExport).              *)
(*                                                                         *)
(* Text.  A JavaScript string is a sequence of characters, each character  *)
(* written as a short token: "a", "A", " ", ":", "5", ...                  *)
(*   "E^"  is U+00C9 (E with acute), "e^" is U+00E9 (e with acute),        *)
(*   "^"   is U+0301 (combining acute accent),                             *)
(*   "sin", "te", "vav", "nun" are the four Persian letters of the word    *)
(*   the source uses for "column" (U+0633 U+062A U+0648 U+0646).           *)
(* Workbook names and sheet names are never processed as text and are      *)
(* plain strings.                                                          *)
(*                                                                         *)
(* Cells.  A cell is string | number | boolean | null; every cell is the   *)
(* record [t, s, n]: t the type tag, s the text of a string, n the value   *)
(* of a number (or 1/0 for true/false).                                    *)
(***************************************************************************)
EXTENDS Integers, Sequences, FiniteSets, TLC

VARIABLES
    workbookName,      \* AgentState.workbookName
    sheets,            \* AgentState.sheets
    activeSheetIndex,  \* AgentState.activeSheetIndex
    selectedColumns,   \* AgentState.selectedColumns : key -> boolean
    columnAliases,     \* AgentState.columnAliases   : key -> string
    searchTerm,        \* AgentState.searchTerm
    error,             \* useState error of ExcelAgent
    isExporting,       \* useState isExporting of ExcelAgent
    loads,             \* handleFileChange calls suspended at the await, oldest first
    writerArg          \* the rows handed to downloadWorkbook while it runs, else <<>>

store == <<workbookName, sheets, activeSheetIndex, selectedColumns,
           columnAliases, searchTerm>>
vars == <<workbookName, sheets, activeSheetIndex, selectedColumns,
          columnAliases, searchTerm, error, isExporting, loads, writerArg>>

----------------------------------------------------------------------------
(* Bounds of the model                                                     *)

\* setActiveSheetIndex is called with every index in -IndexBound..IndexBound
IndexBound == 3
\* at most this many file loads are suspended at the same time
MaxInFlight == 2
\* the header lists of the column-key specification have at most this many headers
MaxHeaders == 3

----------------------------------------------------------------------------
(* Cells and text                                                          *)

Str(s) == [t |-> "string", s |-> s, n |-> 0]
Num(n) == [t |-> "number", s |-> <<>>, n |-> n]
Bool(b) == [t |-> "boolean", s |-> <<>>, n |-> IF b THEN 1 ELSE 0]
Null == [t |-> "null", s |-> <<>>, n |-> 0]

IsSpace(c) == c \in {" ", "\t"}

RECURSIVE TrimStart(_)
TrimStart(s) ==
    IF s # <<>> /\ IsSpace(Head(s)) THEN TrimStart(Tail(s)) ELSE s

RECURSIVE TrimEnd(_)
TrimEnd(s) ==
    IF s # <<>> /\ IsSpace(s[Len(s)]) THEN TrimEnd(SubSeq(s, 1, Len(s) - 1)) ELSE s

\* String.prototype.trim
Trim(s) == TrimEnd(TrimStart(s))

DigitChar(d) ==
    CASE d = 0 -> "0" [] d = 1 -> "1" [] d = 2 -> "2" [] d = 3 -> "3"
      [] d = 4 -> "4" [] d = 5 -> "5" [] d = 6 -> "6" [] d = 7 -> "7"
      [] d = 8 -> "8" [] OTHER -> "9"

\* the decimal text of a natural number, as a template literal or String() gives it
RECURSIVE Digits(_)
Digits(n) ==
    IF n < 10 THEN <<DigitChar(n)>> ELSE Digits(n \div 10) \o <<DigitChar(n % 10)>>

\* String(value ?? "")
StringOf(cell) ==
    CASE cell.t = "string" -> cell.s
      [] cell.t = "number" -> Digits(cell.n)
      [] cell.t = "boolean" ->
            IF cell.n = 1 THEN <<"t", "r", "u", "e">> ELSE <<"f", "a", "l", "s", "e">>
      [] OTHER -> <<>>

\* toLocaleLowerCase("fa"), one character
LowerChar(c) ==
    CASE c = "A" -> "a" [] c = "N" -> "n" [] c = "R" -> "r" [] c = "C" -> "c"
      [] c = "E" -> "e" [] c = "E^" -> "e^"
      [] OTHER -> c

\* normalize("NFKD"), one character: the precomposed letters decompose into
\* the base letter followed by the combining accent
DecomposeChar(c) ==
    CASE c = "E^" -> <<"E", "^">>
      [] c = "e^" -> <<"e", "^">>
      [] OTHER -> <<c>>

RECURSIVE ToLocaleLowerCase(_)
ToLocaleLowerCase(s) ==
    IF s = <<>> THEN <<>> ELSE <<LowerChar(Head(s))>> \o ToLocaleLowerCase(Tail(s))

RECURSIVE NFKD(_)
NFKD(s) ==
    IF s = <<>> THEN <<>> ELSE DecomposeChar(Head(s)) \o NFKD(Tail(s))

\* normalizeForSearch
normalizeForSearch(cell) == NFKD(ToLocaleLowerCase(StringOf(cell)))

\* String.prototype.includes
Includes(hay, needle) ==
    \E i \in 0..(Len(hay) - Len(needle)) : SubSeq(hay, i + 1, i + Len(needle)) = needle

\* buildColumnKey without the position behind a non-blank header
buildColumnKeyNoIndex(header, index) ==
    IF Trim(header) # <<>>
    THEN Trim(header)
    ELSE <<"sin", "te", "vav", "nun", "-">> \o Digits(index + 1)

\* buildColumnKey(header, index), index 0-based
buildColumnKey(header, index) ==
    IF Trim(header) # <<>>
    THEN Trim(header) \o <<":", ":">> \o Digits(index)
    ELSE <<"sin", "te", "vav", "nun", "-">> \o Digits(index + 1)

\* Array.prototype.at: whether at(index) is an element, and which one
HasAt(seq, index) ==
    IF index < 0 THEN Len(seq) + index >= 0 ELSE index < Len(seq)
At(seq, index) ==
    IF index < 0 THEN seq[Len(seq) + index + 1] ELSE seq[index + 1]

\* the object built by headers.forEach(... initialSelectedColumns[key] = true)
InitialSelectedColumns(headers) ==
    [k \in {buildColumnKey(headers[i], i - 1) : i \in 1..Len(headers)} |-> TRUE]

\* { ...obj, [key]: value }
Put(obj, key, value) ==
    [k \in DOMAIN obj \cup {key} |-> IF k = key THEN value ELSE obj[k]]

EmptyObject == [k \in {} |-> TRUE]

----------------------------------------------------------------------------
(* The view projection of useAgent, as operators of the store's fields     *)

\* const sheet = store.sheets.at(store.activeSheetIndex)
HasSheet(shs, idx) == HasAt(shs, idx)
SheetOf(shs, idx) == At(shs, idx)

\* visibleRows with the filter asking whether any row of the sheet matches
VisibleRowsAnyRowMatches(shs, idx, term) ==
    IF ~HasSheet(shs, idx) THEN <<>>
    ELSE IF Trim(term) = <<>> THEN SheetOf(shs, idx).rows
    ELSE SelectSeq(SheetOf(shs, idx).rows,
             LAMBDA row : \E r \in 1..Len(SheetOf(shs, idx).rows) :
                 \E c \in 1..Len(SheetOf(shs, idx).rows[r]) :
                     Includes(normalizeForSearch(SheetOf(shs, idx).rows[r][c]),
                              normalizeForSearch(Str(term))))

\* visibleRows testing the search term without trimming it
VisibleRowsNoTrim(shs, idx, term) ==
    IF ~HasSheet(shs, idx) THEN <<>>
    ELSE IF term = <<>> THEN SheetOf(shs, idx).rows
    ELSE SelectSeq(SheetOf(shs, idx).rows,
             LAMBDA row : \E c \in 1..Len(row) :
                 Includes(normalizeForSearch(row[c]), normalizeForSearch(Str(term))))

\* visibleRows matching the trimmed search term
VisibleRowsTrimmedTerm(shs, idx, term) ==
    IF ~HasSheet(shs, idx) THEN <<>>
    ELSE IF Trim(term) = <<>> THEN SheetOf(shs, idx).rows
    ELSE SelectSeq(SheetOf(shs, idx).rows,
             LAMBDA row : \E c \in 1..Len(row) :
                 Includes(normalizeForSearch(row[c]),
                          normalizeForSearch(Str(Trim(term)))))

\* visibleRows
VisibleRowsOf(shs, idx, term) ==
    IF ~HasSheet(shs, idx) THEN <<>>
    ELSE IF Trim(term) = <<>> THEN SheetOf(shs, idx).rows
    ELSE SelectSeq(SheetOf(shs, idx).rows,
             LAMBDA row : \E c \in 1..Len(row) :
                 Includes(normalizeForSearch(row[c]), normalizeForSearch(Str(term))))

\* headers = sheet?.headers ?? []
HeadersOf(shs, idx) == IF HasSheet(shs, idx) THEN SheetOf(shs, idx).headers ELSE <<>>

\* columnKeys = headers.map(buildColumnKey); entry i is the key of position i-1
ColumnKeysOf(headers) == [i \in 1..Len(headers) |-> buildColumnKey(headers[i], i - 1)]

\* store.selectedColumns[key], undefined read as false
IsSelected(sel, key) == key \in DOMAIN sel /\ sel[key]

\* selectedColumnIndices: the 0-based positions whose key is selected, ascending
RECURSIVE FilterIndices(_, _, _)
FilterIndices(keys, sel, i) ==
    IF i > Len(keys) THEN <<>>
    ELSE (IF IsSelected(sel, keys[i]) THEN <<i - 1>> ELSE <<>>)
         \o FilterIndices(keys, sel, i + 1)

SelectedColumnIndicesOf(headers, sel) == FilterIndices(ColumnKeysOf(headers), sel, 1)

\* the header cell taking any non-empty alias, untrimmed
HeaderCellUntrimmedAlias(headers, aliases, idx) ==
    LET key == ColumnKeysOf(headers)[idx + 1]
        alias == IF key \in DOMAIN aliases THEN aliases[key] ELSE <<>>
    IN  IF alias # <<>> THEN Str(alias)
        ELSE IF headers[idx + 1] # <<>> THEN Str(headers[idx + 1])
        ELSE Str(<<"sin", "te", "vav", "nun", " ">> \o Digits(idx + 1))

\* store.columnAliases[key]?.trim() || headers[idx] || `<column> ${idx + 1}`
HeaderCell(headers, aliases, idx) ==
    LET key == ColumnKeysOf(headers)[idx + 1]
        alias == IF key \in DOMAIN aliases THEN Trim(aliases[key]) ELSE <<>>
    IN  IF alias # <<>> THEN Str(alias)
        ELSE IF headers[idx + 1] # <<>> THEN Str(headers[idx + 1])
        ELSE Str(<<"sin", "te", "vav", "nun", " ">> \o Digits(idx + 1))

\* row[idx] without the ?? "" default
DataCellNoDefault(row, idx) ==
    IF idx + 1 <= Len(row) THEN row[idx + 1] ELSE Null

\* row[idx] ?? ""
DataCell(row, idx) ==
    IF idx + 1 <= Len(row) /\ row[idx + 1].t # "null" THEN row[idx + 1] ELSE Str(<<>>)

\* rowsForExport without the early return on an empty selection
RowsForExportNoGuard(shs, idx, sel, aliases, term) ==
    LET headers == HeadersOf(shs, idx)
        indices == SelectedColumnIndicesOf(headers, sel)
        visible == VisibleRowsOf(shs, idx, term)
    IN  IF ~HasSheet(shs, idx) THEN <<>>
        ELSE <<[j \in 1..Len(indices) |-> HeaderCell(headers, aliases, indices[j])]>>
             \o [r \in 1..Len(visible) |->
                    [j \in 1..Len(indices) |-> DataCell(visible[r], indices[j])]]

\* rowsForExport with the data rows copied whole instead of projected
RowsForExportWholeRows(shs, idx, sel, aliases, term) ==
    LET headers == HeadersOf(shs, idx)
        indices == SelectedColumnIndicesOf(headers, sel)
        visible == VisibleRowsOf(shs, idx, term)
    IN  IF ~HasSheet(shs, idx) THEN <<>>
        ELSE IF Len(indices) = 0 THEN <<>>
        ELSE <<[j \in 1..Len(indices) |-> HeaderCell(headers, aliases, indices[j])]>>
             \o visible

\* rowsForExport
RowsForExportOf(shs, idx, sel, aliases, term) ==
    LET headers == HeadersOf(shs, idx)
        indices == SelectedColumnIndicesOf(headers, sel)
        visible == VisibleRowsOf(shs, idx, term)
    IN  IF ~HasSheet(shs, idx) THEN <<>>
        ELSE IF Len(indices) = 0 THEN <<>>
        ELSE <<[j \in 1..Len(indices) |-> HeaderCell(headers, aliases, indices[j])]>>
             \o [r \in 1..Len(visible) |->
                    [j \in 1..Len(indices) |-> DataCell(visible[r], indices[j])]]

\* the derived values in the current state
activeSheetExists == HasSheet(sheets, activeSheetIndex)
visibleRows == VisibleRowsOf(sheets, activeSheetIndex, searchTerm)
headers == HeadersOf(sheets, activeSheetIndex)
columnKeys == ColumnKeysOf(headers)
selectedColumnIndices == SelectedColumnIndicesOf(headers, selectedColumns)
rowsForExport ==
    RowsForExportOf(sheets, activeSheetIndex, selectedColumns, columnAliases, searchTerm)
hasWorkbook == Len(sheets) # 0
selectedColumnCount == Len(selectedColumnIndices)
visibleRowCount == Len(visibleRows)

----------------------------------------------------------------------------
(* readWorkbookFile                                                        *)

\* one sheet: rows is what sheet_to_json({header: 1, defval: ""}) returned;
\* rows.shift() is the header row, blank header cells get the placeholder
ReadSheet(name, aoa) ==
    LET first == IF aoa = <<>> THEN <<>> ELSE Head(aoa)
    IN  [name |-> name,
         headers |-> [i \in 1..Len(first) |->
                        IF Trim(StringOf(first[i])) # <<>>
                        THEN Trim(StringOf(first[i]))
                        ELSE <<"sin", "te", "vav", "nun", " ">> \o Digits(i)],
         rows |-> IF aoa = <<>> THEN <<>> ELSE Tail(aoa)]

readWorkbookFile(file) ==
    [i \in 1..Len(file.sheets) |-> ReadSheet(file.sheets[i].name, file.sheets[i].aoa)]

----------------------------------------------------------------------------
(* Inputs: the files the user can pick, the payloads setWorkbook is called *)
(* with directly, the search terms, alias texts and column keys            *)

sName == <<"N", "a", "m", "e">>
sAli == <<"A", "l", "i">>
sReza == <<"R", "e", "z", "a">>

FileA ==
    [name |-> "a.xlsx", corrupt |-> FALSE,
     sheets |-> << [name |-> "S1",
                    aoa |-> << <<Str(<<" ">>)>>,
                               <<Str(sAli)>>,
                               <<Num(5)>> >>],
                   [name |-> "S2",
                    aoa |-> << <<Str(<<" ", "C", " ">>)>> >>] >>]

FileB ==
    [name |-> "b.xlsx", corrupt |-> FALSE,
     sheets |-> << [name |-> "T", aoa |-> <<>>] >>]

FileC == [name |-> "bad.xlsx", corrupt |-> TRUE, sheets |-> <<>>]

Files == {FileA, FileB, FileC}

\* a workbook with no sheet
PayloadEmpty == [workbookName |-> "none.xlsx", sheets |-> <<>>]

\* a sheet with a blank header and rows shorter and longer than the headers
PayloadRagged ==
    [workbookName |-> "ragged.xlsx",
     sheets |-> << [name |-> "R",
                    headers |-> <<sName, <<>>>>,
                    rows |-> << <<Str(sAli), Num(5)>>,
                                <<Str(sReza), Num(7), Bool(TRUE)>>,
                                <<Str(<<"E^">>)>>,
                                <<Null, Str(<<"a", " ">>)>> >>] >>]

Payloads == {PayloadEmpty, PayloadRagged}

TermInputs == {<<>>, <<" ">>, <<"A", "l">>, <<"e^">>, <<"a", " ">>, <<"a">>}

AliasInputs == {<<" ">>, <<" ", "Q">>}

\* a column key of no loaded sheet's current position
ForeignKey == buildColumnKey(<<"Z">>, 9)

\* toggleColumn is called with the keys the view renders and with a foreign key
KeyInputs == {columnKeys[i] : i \in 1..Len(columnKeys)} \cup {ForeignKey}

\* setColumnAlias is called with the keys the view renders an alias input for
AliasKeyInputs == {columnKeys[i] : i \in 1..Len(columnKeys)}

IndexInputs == (0 - IndexBound)..IndexBound

\* the values of the error state: null and the three messages
NoError == "null"
ReadError == "read failed, try again"
EmptyExportError == "no column selected or no data to save"
WriteError == "save failed, try again"

----------------------------------------------------------------------------
(* The store's operations (useAgentStore) as effects on the store fields   *)

\* setWorkbook leaving the search term as it was
setWorkbookKeepsSearch(name, shs) ==
    LET hdrs == IF HasAt(shs, 0) THEN At(shs, 0).headers ELSE <<>>
    IN  /\ workbookName' = name
        /\ sheets' = shs
        /\ activeSheetIndex' = 0
        /\ selectedColumns' = InitialSelectedColumns(hdrs)
        /\ columnAliases' = EmptyObject
        /\ UNCHANGED searchTerm

\* setWorkbook({workbookName, sheets}); headers is sheets.at(0)?.headers, and
\* [] when there is no sheet (a RawSheetData always has its headers)
setWorkbook(name, shs) ==
    LET hdrs == IF HasAt(shs, 0) THEN At(shs, 0).headers ELSE <<>>
    IN  /\ workbookName' = name
        /\ sheets' = shs
        /\ activeSheetIndex' = 0
        /\ selectedColumns' = InitialSelectedColumns(hdrs)
        /\ columnAliases' = EmptyObject
        /\ searchTerm' = <<>>

\* setActiveSheetIndex leaving the aliases as they were
setActiveSheetIndexKeepsAliases(index) ==
    IF ~HasAt(sheets, index)
    THEN UNCHANGED store
    ELSE /\ activeSheetIndex' = index
         /\ selectedColumns' = InitialSelectedColumns(At(sheets, index).headers)
         /\ searchTerm' = <<>>
         /\ UNCHANGED <<workbookName, sheets, columnAliases>>

\* setActiveSheetIndex leaving the Selection Map as it was
setActiveSheetIndexKeepsSelection(index) ==
    IF ~HasAt(sheets, index)
    THEN UNCHANGED store
    ELSE /\ activeSheetIndex' = index
         /\ columnAliases' = EmptyObject
         /\ searchTerm' = <<>>
         /\ UNCHANGED <<workbookName, sheets, selectedColumns>>

\* setActiveSheetIndex(index)
setActiveSheetIndex(index) ==
    IF ~HasAt(sheets, index)
    THEN UNCHANGED store
    ELSE /\ activeSheetIndex' = index
         /\ selectedColumns' = InitialSelectedColumns(At(sheets, index).headers)
         /\ columnAliases' = EmptyObject
         /\ searchTerm' = <<>>
         /\ UNCHANGED <<workbookName, sheets>>

\* the flip with a key that is absent read as selected
ToggledAbsentAsSelected(sel, columnKey) ==
    Put(sel, columnKey, IF columnKey \in DOMAIN sel THEN ~sel[columnKey] ELSE FALSE)

\* { ...state.selectedColumns, [columnKey]: !state.selectedColumns[columnKey] }
ToggledColumns(sel, columnKey) == Put(sel, columnKey, ~IsSelected(sel, columnKey))

\* toggleColumn(columnKey)
toggleColumn(columnKey) ==
    /\ selectedColumns' = ToggledColumns(selectedColumns, columnKey)
    /\ UNCHANGED <<workbookName, sheets, activeSheetIndex, columnAliases, searchTerm>>

\* setColumnAlias storing the trimmed alias
setColumnAliasTrimmed(columnKey, alias) ==
    /\ columnAliases' = Put(columnAliases, columnKey, Trim(alias))
    /\ UNCHANGED <<workbookName, sheets, activeSheetIndex, selectedColumns, searchTerm>>

\* setColumnAlias(columnKey, alias)
setColumnAlias(columnKey, alias) ==
    /\ columnAliases' = Put(columnAliases, columnKey, alias)
    /\ UNCHANGED <<workbookName, sheets, activeSheetIndex, selectedColumns, searchTerm>>

\* setSearchTerm(term)
setSearchTerm(term) ==
    /\ searchTerm' = term
    /\ UNCHANGED <<workbookName, sheets, activeSheetIndex, selectedColumns,
                   columnAliases>>

\* reset()
reset ==
    /\ workbookName' = ""
    /\ sheets' = <<>>
    /\ activeSheetIndex' = 0
    /\ selectedColumns' = EmptyObject
    /\ columnAliases' = EmptyObject
    /\ searchTerm' = <<>>

----------------------------------------------------------------------------
(* The state machine.  Everything runs on one thread: a handler runs to    *)
(* its end, or to its await, before the next one starts.  downloadWorkbook *)
(* is a synchronous call inside handleExport, so nothing else runs between *)
(* its call and its return or throw.                                       *)

WriterRunning == writerArg # <<>>

Init ==
    /\ workbookName = ""
    /\ sheets = <<>>
    /\ activeSheetIndex = 0
    /\ selectedColumns = EmptyObject
    /\ columnAliases = EmptyObject
    /\ searchTerm = <<>>
    /\ error = NoError
    /\ isExporting = FALSE
    /\ loads = <<>>
    /\ writerArg = <<>>

ui == <<error, isExporting, loads, writerArg>>

\* the store's setWorkbook called with a payload
SetWorkbook(p) ==
    /\ ~WriterRunning
    /\ setWorkbook(p.workbookName, p.sheets)
    /\ UNCHANGED ui

SetActiveSheetIndex(index) ==
    /\ ~WriterRunning
    /\ setActiveSheetIndex(index)
    /\ UNCHANGED ui

ToggleColumn(columnKey) ==
    /\ ~WriterRunning
    /\ toggleColumn(columnKey)
    /\ UNCHANGED ui

SetColumnAlias(columnKey, alias) ==
    /\ ~WriterRunning
    /\ setColumnAlias(columnKey, alias)
    /\ UNCHANGED ui

SetSearchTerm(term) ==
    /\ ~WriterRunning
    /\ setSearchTerm(term)
    /\ UNCHANGED ui

Reset ==
    /\ ~WriterRunning
    /\ reset
    /\ UNCHANGED ui

\* handleFileChange up to its await: setError(null), then the read is in flight,
\* beside any earlier read, of the same file or of another
HandleFileChange(file) ==
    /\ ~WriterRunning
    /\ Len(loads) < MaxInFlight
    /\ error' = NoError
    /\ loads' = Append(loads, file)
    /\ UNCHANGED <<store, isExporting, writerArg>>

RemoveAt(seq, i) == SubSeq(seq, 1, i - 1) \o SubSeq(seq, i + 1, Len(seq))

\* a resolved read that is dropped when a later file has been picked meanwhile
ParseSucceedUnlessStale(i) ==
    /\ ~WriterRunning
    /\ i \in 1..Len(loads)
    /\ ~loads[i].corrupt
    /\ IF i = Len(loads)
       THEN setWorkbook(loads[i].name, readWorkbookFile(loads[i]))
       ELSE UNCHANGED store
    /\ loads' = RemoveAt(loads, i)
    /\ UNCHANGED <<error, isExporting, writerArg>>

\* handleFileChange after its await, readWorkbookFile resolved
ParseSucceed(i) ==
    /\ ~WriterRunning
    /\ i \in 1..Len(loads)
    /\ ~loads[i].corrupt
    /\ setWorkbook(loads[i].name, readWorkbookFile(loads[i]))
    /\ loads' = RemoveAt(loads, i)
    /\ UNCHANGED <<error, isExporting, writerArg>>

\* a catch block that also clears the store
ParseFailResetsStore(i) ==
    /\ ~WriterRunning
    /\ i \in 1..Len(loads)
    /\ loads[i].corrupt
    /\ reset
    /\ error' = ReadError
    /\ loads' = RemoveAt(loads, i)
    /\ UNCHANGED <<isExporting, writerArg>>

\* handleFileChange after its await, readWorkbookFile rejected: the catch block
ParseFail(i) ==
    /\ ~WriterRunning
    /\ i \in 1..Len(loads)
    /\ loads[i].corrupt
    /\ error' = ReadError
    /\ loads' = RemoveAt(loads, i)
    /\ UNCHANGED <<store, isExporting, writerArg>>

\* handleExport up to the call of downloadWorkbook
HandleExport ==
    /\ ~WriterRunning
    /\ IF Len(rowsForExport) = 0
       THEN /\ error' = EmptyExportError
            /\ UNCHANGED <<isExporting, writerArg>>
       ELSE /\ isExporting' = TRUE
            /\ error' = NoError
            /\ writerArg' = rowsForExport
    /\ UNCHANGED <<store, loads>>

\* downloadWorkbook returned: the finally block
WriterReturn ==
    /\ WriterRunning
    /\ isExporting' = FALSE
    /\ writerArg' = <<>>
    /\ UNCHANGED <<store, error, loads>>

\* downloadWorkbook threw: the catch block, with no finally block
WriterThrowNoFinally ==
    /\ WriterRunning
    /\ error' = WriteError
    /\ writerArg' = <<>>
    /\ UNCHANGED <<store, loads, isExporting>>

\* downloadWorkbook threw: the catch block, then the finally block
WriterThrow ==
    /\ WriterRunning
    /\ error' = WriteError
    /\ isExporting' = FALSE
    /\ writerArg' = <<>>
    /\ UNCHANGED <<store, loads>>

Next ==
    \/ \E p \in Payloads : SetWorkbook(p)
    \/ \E index \in IndexInputs : SetActiveSheetIndex(index)
    \/ \E k \in KeyInputs : ToggleColumn(k)
    \/ \E k \in AliasKeyInputs, a \in AliasInputs : SetColumnAlias(k, a)
    \/ \E t \in TermInputs : SetSearchTerm(t)
    \/ Reset
    \/ \E f \in Files : HandleFileChange(f)
    \/ \E i \in 1..MaxInFlight : ParseSucceed(i)
    \/ \E i \in 1..MaxInFlight : ParseFail(i)
    \/ HandleExport
    \/ WriterReturn
    \/ WriterThrow

Spec == Init /\ [][Next]_vars

----------------------------------------------------------------------------
(* Properties                                                              *)

\* the column keys of a sheet, as a set
KeySetOf(sheet) == {buildColumnKey(sheet.headers[i], i - 1) : i \in 1..Len(sheet.headers)}

\* obj maps exactly the keys of ks, each to true
AllTrueOn(obj, ks) == DOMAIN obj = ks /\ \A k \in ks : obj[k] = TRUE

\* index is no position of a loaded sheet
OutOfRange(index) == index < 0 \/ index >= Len(sheets)

\* C1: setActiveSheetIndex(index) with index < 0 or index >= number of sheets
\* leaves every field of the store unchanged.
C1_OutOfRangeIsNoOp ==
    [][\A index \in IndexInputs :
          (OutOfRange(index) /\ SetActiveSheetIndex(index)) => UNCHANGED store]_vars

\* C2: after setActiveSheetIndex(i) with 0 <= i < number of sheets the active
\* index is i, the Selection Map maps exactly the column keys of sheet i to
\* true, the Alias Map is empty and the search term is empty, whatever the
\* maps and the term held before.
C2_SwitchResets ==
    [][\A i \in IndexInputs :
          (~OutOfRange(i) /\ SetActiveSheetIndex(i)) =>
              /\ activeSheetIndex' = i
              /\ AllTrueOn(selectedColumns', KeySetOf(sheets[i + 1]))
              /\ columnAliases' = EmptyObject
              /\ searchTerm' = <<>>
              /\ UNCHANGED <<workbookName, sheets>>]_vars

\* a second sheet has been switched to and shows the rebuilt defaults
C2_Witness ==
    /\ activeSheetIndex = 1
    /\ Len(sheets) = 2
    /\ AllTrueOn(selectedColumns, KeySetOf(sheets[2]))
    /\ columnAliases = EmptyObject
    /\ searchTerm = <<>>

\* what setWorkbook(name, shs) leaves behind
WorkbookReplaced(name, shs) ==
    /\ workbookName' = name
    /\ sheets' = shs
    /\ activeSheetIndex' = 0
    /\ AllTrueOn(selectedColumns', IF shs = <<>> THEN {} ELSE KeySetOf(shs[1]))
    /\ columnAliases' = EmptyObject
    /\ searchTerm' = <<>>
    /\ (shs = <<>> => ~activeSheetExists')

\* C3: setWorkbook(name, sheets), called directly or by a file load whose parse
\* succeeded, replaces name and sheets, sets the active index to 0, maps
\* exactly the column keys of sheet 0 to true, clears the Alias Map and the
\* search term; with no sheets the Selection Map is empty and there is no
\* active sheet.
C3_SetWorkbookReplaces ==
    [][/\ \A p \in Payloads :
              SetWorkbook(p) => WorkbookReplaced(p.workbookName, p.sheets)
       /\ \A i \in 1..Len(loads) :
              ParseSucceed(i) =>
                  WorkbookReplaced(loads[i].name, readWorkbookFile(loads[i]))]_vars

\* a loaded file replaced the workbook while another load is still in flight
C3_Witness ==
    /\ workbookName = FileA.name
    /\ sheets = readWorkbookFile(FileA)
    /\ activeSheetIndex = 0
    /\ AllTrueOn(selectedColumns, KeySetOf(sheets[1]))
    /\ columnAliases = EmptyObject
    /\ searchTerm = <<>>
    /\ loads = <<FileB>>

\* the load at position i of loads completes by failing
LoadFails(i) == loads[i].corrupt /\ loads' = RemoveAt(loads, i)

\* C4: when a load's read/parse step fails the six store fields keep their
\* values and the error is the read-failure message; the failed file never
\* becomes the workbook.
C4_ParseFailureKeepsStore ==
    [][/\ \A i \in 1..Len(loads) :
              LoadFails(i) => (UNCHANGED store /\ error' = ReadError)
       /\ workbookName' # FileC.name]_vars

\* a load failed while a customized workbook was loaded, and it is still there
C4_Witness ==
    /\ error = ReadError
    /\ workbookName = PayloadRagged.workbookName
    /\ sheets = PayloadRagged.sheets
    /\ columnAliases # EmptyObject
    /\ searchTerm # <<>>
    /\ loads = <<>>

\* no column of the active sheet is selected
NoColumnSelected ==
    ~\E i \in 1..Len(headers) :
        IsSelected(selectedColumns, buildColumnKey(headers[i], i - 1))

\* C5: while no column of the active sheet is selected the Export Row Matrix
\* is empty, and handleExport then sets the nothing-to-export message and
\* does not call the writer.
C5_NothingSelectedNothingExported ==
    [][/\ NoColumnSelected => rowsForExport = <<>>
       /\ (NoColumnSelected /\ HandleExport) =>
              /\ error' = EmptyExportError
              /\ ~WriterRunning'
              /\ isExporting' = isExporting]_vars

\* export was triggered on a sheet that has columns, none of them selected
C5_Witness ==
    /\ error = EmptyExportError
    /\ activeSheetExists
    /\ Len(headers) = 2
    /\ NoColumnSelected
    /\ ~WriterRunning

\* C6: handleExport on an active sheet without rows aborts with the
\* nothing-to-export message and does not call the writer (stated for the
\* states whose active index is the position of a sheet).
C6_NoRowsNoExport ==
    [][(~OutOfRange(activeSheetIndex)
            /\ Len(sheets[activeSheetIndex + 1].rows) = 0
            /\ HandleExport) =>
           (error' = EmptyExportError /\ ~WriterRunning')]_vars

\* the 0-based positions of the selected columns of the active sheet
SelectedPositions ==
    {q \in 0..(Len(headers) - 1) :
        IsSelected(selectedColumns, buildColumnKey(headers[q + 1], q))}

\* C7: a non-empty Export Row Matrix has a header row with one entry per
\* selected column of the active sheet, and every data row has that length.
C7_ExportRowLengths ==
    LET matrix == rowsForExport
        width == Cardinality(SelectedPositions)
    IN  matrix # <<>> =>
            \A r \in 1..Len(matrix) : Len(matrix[r]) = width

\* one of two columns is selected; the sheet has rows shorter and longer than
\* its headers
C7_Witness ==
    /\ sheets = PayloadRagged.sheets
    /\ Cardinality(SelectedPositions) = 1
    /\ Len(rowsForExport) = 5
    /\ \E r \in 1..4 : Len(sheets[1].rows[r]) < 2
    /\ \E r \in 1..4 : Len(sheets[1].rows[r]) > 2

\* the j-th smallest selected position
NthSelected(j) ==
    CHOOSE q \in SelectedPositions :
        Cardinality({x \in SelectedPositions : x < q}) = j - 1

\* the cell of row at 0-based position q, the empty string when absent
CellOrEmpty(row, q) ==
    IF q + 1 > Len(row) THEN Str(<<>>)
    ELSE IF row[q + 1] = Null THEN Str(<<>>)
    ELSE row[q + 1]

\* C8: with a column selected, the data rows of the Export Row Matrix are the
\* Visible Rows in order, each projected on the selected positions in
\* ascending order, an absent cell as the empty string.
C8_ExportIsFilteredProjection ==
    LET matrix == rowsForExport
        visible == visibleRows
        width == Cardinality(SelectedPositions)
        position == [j \in 1..width |-> NthSelected(j)]
    IN  (activeSheetExists /\ width # 0) =>
            /\ Len(matrix) = 1 + Len(visible)
            /\ \A r \in 1..Len(visible) :
                  /\ Len(matrix[r + 1]) = width
                  /\ \A j \in 1..width :
                        matrix[r + 1][j] = CellOrEmpty(visible[r], position[j])

\* the filter leaves one row of four, the first column is deselected and the
\* row has no cell at the selected position
C8_Witness ==
    /\ sheets = PayloadRagged.sheets
    /\ searchTerm = <<"e^">>
    /\ SelectedPositions = {1}
    /\ rowsForExport =
           << <<Str(<<"sin", "te", "vav", "nun", " ", "2">>)>>, <<Str(<<>>)>> >>

\* a is b with some elements left out, order kept
RECURSIVE IsSubsequence(_, _)
IsSubsequence(a, b) ==
    IF a = <<>> THEN TRUE
    ELSE IF b = <<>> THEN FALSE
    ELSE IF Head(a) = Head(b) THEN IsSubsequence(Tail(a), Tail(b))
    ELSE IsSubsequence(a, Tail(b))

\* row has a cell whose normalized text contains the normalized term
RowMatches(row, term) ==
    \E c \in 1..Len(row) :
        Includes(normalizeForSearch(row[c]), normalizeForSearch(Str(term)))

FilteredRowsMatch ==
    LET visible == visibleRows
    IN  /\ IsSubsequence(visible, SheetOf(sheets, activeSheetIndex).rows)
        /\ \A r \in 1..Len(visible) : RowMatches(visible[r], searchTerm)

\* C9 as stated: for every non-empty search term the Visible Rows are a
\* subsequence of the sheet's rows and every one of them has a matching cell.
C9_NonEmptyTermFilters ==
    (activeSheetExists /\ searchTerm # <<>>) => FilteredRowsMatch

\* C9 amended: for every search term that is non-empty after trimming the
\* Visible Rows are a subsequence of the sheet's rows and every one of them
\* has a matching cell.
C9_TrimmedNonEmptyTermFilters ==
    (activeSheetExists /\ Trim(searchTerm) # <<>>) => FilteredRowsMatch

\* a term that the first, second and fourth row of four match: the three are
\* kept in the sheet's order, the third row left out between them
C9_Witness ==
    /\ sheets = PayloadRagged.sheets
    /\ activeSheetIndex = 0
    /\ searchTerm = <<"a">>
    /\ visibleRows = <<sheets[1].rows[1], sheets[1].rows[2], sheets[1].rows[4]>>

\* C10: with an empty or whitespace-only search term the Visible Rows are the
\* active sheet's rows, and the visible row count is the sheet's row count.
C10_BlankTermShowsAll ==
    (activeSheetExists /\ Trim(searchTerm) = <<>>) =>
        /\ visibleRows = SheetOf(sheets, activeSheetIndex).rows
        /\ visibleRowCount = Len(SheetOf(sheets, activeSheetIndex).rows)

\* a whitespace-only term on a sheet of four rows
C10_Witness ==
    /\ sheets = PayloadRagged.sheets
    /\ searchTerm = <<" ">>
    /\ visibleRowCount = 4

\* the j-th smallest element of a set of numbers
NthSmallest(S, j) == CHOOSE q \in S : Cardinality({x \in S : x < q}) = j - 1

\* the positions of the active sheet's rows that have a cell whose normalized
\* text contains the normalized search term
MatchingPositions ==
    {r \in 1..Len(SheetOf(sheets, activeSheetIndex).rows) :
        RowMatches(SheetOf(sheets, activeSheetIndex).rows[r], searchTerm)}

\* C11: for a search term that is non-empty after trimming, the Visible Rows
\* are exactly the rows of the active sheet that have a cell whose normalized
\* text contains the normalized search term (the term as typed, surrounding
\* white space included), in the sheet's order: no such row is dropped and
\* no other row is kept.
C11_VisibleIffCellContainsTerm ==
    LET visible == visibleRows
        matching == MatchingPositions
    IN  (activeSheetExists /\ Trim(searchTerm) # <<>>) =>
            /\ Len(visible) = Cardinality(matching)
            /\ \A k \in 1..Len(visible) :
                  visible[k] =
                      SheetOf(sheets, activeSheetIndex).rows[NthSmallest(matching, k)]

\* a term with trailing white space: only the row holding "a " is visible
C11_Witness ==
    /\ sheets = PayloadRagged.sheets
    /\ searchTerm = <<"a", " ">>
    /\ visibleRows = << <<Null, Str(<<"a", " ">>)>> >>

\* C12: toggleColumn(k) applied twice leaves key k selected exactly if it was
\* selected before (an absent key counting as not selected), and leaves every
\* other key's entry as it was.
C12_ToggleTwiceRestores ==
    \A k \in KeyInputs :
        LET twice == ToggledColumns(ToggledColumns(selectedColumns, k), k)
        IN  /\ IsSelected(twice, k) = IsSelected(selectedColumns, k)
            /\ DOMAIN twice \ {k} = DOMAIN selectedColumns \ {k}
            /\ \A j \in DOMAIN selectedColumns \ {k} : twice[j] = selectedColumns[j]

\* a key that was absent has been toggled twice, next to a deselected column
C12_Witness ==
    /\ ForeignKey \in DOMAIN selectedColumns
    /\ ~selectedColumns[ForeignKey]
    /\ \E i \in 1..Len(columnKeys) : ~IsSelected(selectedColumns, columnKeys[i])

----------------------------------------------------------------------------
(* Column keys of arbitrary header lists: the store right after            *)
(* setWorkbook was called with one sheet whose headers are any list of at  *)
(* most MaxHeaders texts, then column toggles and a rebuild of the maps.   *)

\* blank, white space, a text, the same text with white space around it, a
\* text holding the delimiter and a position, a text that reads like the
\* placeholder key of the second column
HeaderTexts ==
    { <<>>, <<" ">>, <<"a">>, <<" ", "a">>, <<"a", ":", ":", "1">>,
      <<"sin", "te", "vav", "nun", "-", "2">> }

HeaderLists == UNION {[1..n -> HeaderTexts] : n \in 0..MaxHeaders}

InitKeys ==
    \E hs \in HeaderLists :
        /\ workbookName = "keys.xlsx"
        /\ sheets = <<[name |-> "K", headers |-> hs, rows |-> <<>>]>>
        /\ activeSheetIndex = 0
        /\ selectedColumns = InitialSelectedColumns(hs)
        /\ columnAliases = EmptyObject
        /\ searchTerm = <<>>
        /\ error = NoError
        /\ isExporting = FALSE
        /\ loads = <<>>
        /\ writerArg = <<>>

NextKeys ==
    \/ \E k \in AliasKeyInputs : ToggleColumn(k)
    \/ SetActiveSheetIndex(0)

SpecKeys == InitKeys /\ [][NextKeys]_vars

\* C13: the column keys of a sheet are pairwise distinct, whatever its headers
\* (duplicates, blanks, texts differing in surrounding white space, texts
\* holding the delimiter or reading like a placeholder), so every column has a
\* Selection Map entry of its own.
C13_ColumnKeysDistinct ==
    /\ \A i, j \in 1..Len(headers) : i # j => columnKeys[i] # columnKeys[j]
    /\ Cardinality(DOMAIN selectedColumns) = Len(headers)

\* the same header twice, once more with white space, the middle column
\* deselected on its own
C13_Witness ==
    /\ headers = << <<"a">>, <<"a">>, <<" ", "a">> >>
    /\ selectedColumns[columnKeys[1]]
    /\ ~selectedColumns[columnKeys[2]]
    /\ selectedColumns[columnKeys[3]]

----------------------------------------------------------------------------
(* Export headers: the store right after setWorkbook was called with a     *)
(* sheet that has a named, a blank and a white-space header, then column   *)
(* toggles and alias edits, the empty alias included.                      *)

PayloadHeaders ==
    [workbookName |-> "headers.xlsx",
     sheets |-> << [name |-> "H",
                    headers |-> <<sName, <<>>, <<" ">>>>,
                    rows |-> << <<Str(sAli), Num(5), Bool(FALSE)>> >>] >>]

AliasTexts == AliasInputs \cup {<<>>}

InitAlias ==
    /\ workbookName = PayloadHeaders.workbookName
    /\ sheets = PayloadHeaders.sheets
    /\ activeSheetIndex = 0
    /\ selectedColumns = InitialSelectedColumns(PayloadHeaders.sheets[1].headers)
    /\ columnAliases = EmptyObject
    /\ searchTerm = <<>>
    /\ error = NoError
    /\ isExporting = FALSE
    /\ loads = <<>>
    /\ writerArg = <<>>

NextAlias ==
    \/ \E k \in AliasKeyInputs : ToggleColumn(k)
    \/ \E k \in AliasKeyInputs, a \in AliasTexts : SetColumnAlias(k, a)

SpecAlias == InitAlias /\ [][NextAlias]_vars

\* the header the export shows for the column at 0-based position q
ExpectedHeader(q) ==
    LET key == buildColumnKey(headers[q + 1], q)
        hasAlias == key \in DOMAIN columnAliases /\ Trim(columnAliases[key]) # <<>>
    IN  IF hasAlias THEN Str(Trim(columnAliases[key]))
        ELSE IF headers[q + 1] # <<>> THEN Str(headers[q + 1])
        ELSE Str(<<"sin", "te", "vav", "nun", " ">> \o Digits(q + 1))

\* C14: the header cell of a selected column is its trimmed alias when the
\* alias is non-empty after trimming; with no alias, an empty or a white-space
\* alias it is the header text when that is non-empty, else the placeholder
\* with the column's 1-based position.
C14_ExportHeaderCells ==
    rowsForExport # <<>> =>
        /\ Len(rowsForExport[1]) = Cardinality(SelectedPositions)
        /\ \A j \in 1..Cardinality(SelectedPositions) :
              rowsForExport[1][j] = ExpectedHeader(NthSelected(j))

\* an alias to trim on the named column, a white-space alias on the blank
\* column, an empty alias on the white-space column
C14_Witness ==
    /\ DOMAIN columnAliases = DOMAIN selectedColumns
    /\ columnAliases[columnKeys[1]] = <<" ", "Q">>
    /\ columnAliases[columnKeys[2]] = <<" ">>
    /\ columnAliases[columnKeys[3]] = <<>>
    /\ rowsForExport[1] =
           <<Str(<<"Q">>), Str(<<"sin", "te", "vav", "nun", " ", "2">>), Str(<<" ">>)>>

----------------------------------------------------------------------------
(* Error message and busy flag                                             *)

\* a user action that succeeds: a load whose parse resolves, an export whose
\* writer returns, a store operation
SuccessfulAction ==
    \/ \E i \in 1..Len(loads) : ParseSucceed(i)
    \/ WriterReturn
    \/ \E index \in IndexInputs : ~OutOfRange(index) /\ SetActiveSheetIndex(index)
    \/ \E k \in KeyInputs : ToggleColumn(k)
    \/ \E k \in AliasKeyInputs, a \in AliasInputs : SetColumnAlias(k, a)
    \/ \E t \in TermInputs : SetSearchTerm(t)
    \/ Reset

\* C15: once an error message is set, the next successful user action leaves
\* the error message cleared.
C15_ErrorClearedByNextAction ==
    [][(error # NoError /\ SuccessfulAction) => error' = NoError]_vars

\* C16: isExporting is true exactly while downloadWorkbook runs: false at the
\* start and on the abort path of handleExport, and false again after the step
\* that ends the writer, by return or by throw; a throw sets the write-failure
\* message.
C16_BusyOnlyWhileWriting ==
    [][/\ isExporting = WriterRunning
       /\ isExporting' = WriterRunning'
       /\ WriterRunning => ~isExporting'
       /\ WriterThrow => error' = WriteError]_vars

\* the writer threw on a loaded workbook: the message is set, the flag is down
C16_Witness ==
    /\ error = WriteError
    /\ ~isExporting
    /\ ~WriterRunning
    /\ hasWorkbook
    /\ selectedColumnCount > 0

\* obj2 is obj with the entry of key added or replaced, every other entry kept
OnlyEntryChanged(obj, obj2, key) ==
    /\ DOMAIN obj2 = DOMAIN obj \cup {key}
    /\ \A j \in DOMAIN obj \ {key} : obj2[j] = obj[j]

\* C17: toggleColumn(k) changes only the Selection Map entry of k,
\* setColumnAlias(k, text) only the Alias Map entry of k, which becomes text
\* as given, setSearchTerm(text) only the search term, which becomes text as
\* given; every other store field and map entry keeps its value.
C17_OperationsChangeOnlyTheirTarget ==
    [][/\ selectedColumns' # selectedColumns =>
              \A k \in KeyInputs :
                  ToggleColumn(k) =>
                      /\ OnlyEntryChanged(selectedColumns, selectedColumns', k)
                      /\ UNCHANGED <<workbookName, sheets, activeSheetIndex,
                                     columnAliases, searchTerm>>
       /\ columnAliases' # columnAliases =>
              \A k \in AliasKeyInputs, a \in AliasInputs :
                  SetColumnAlias(k, a) =>
                      /\ OnlyEntryChanged(columnAliases, columnAliases', k)
                      /\ columnAliases'[k] = a
                      /\ UNCHANGED <<workbookName, sheets, activeSheetIndex,
                                     selectedColumns, searchTerm>>
       /\ searchTerm' # searchTerm =>
              \A t \in TermInputs :
                  SetSearchTerm(t) =>
                      /\ searchTerm' = t
                      /\ UNCHANGED <<workbookName, sheets, activeSheetIndex,
                                     selectedColumns, columnAliases>>]_vars

\* a padded alias kept on a column that was deselected afterwards, next to a
\* padded search term
C17_Witness ==
    /\ searchTerm = <<"a", " ">>
    /\ \E i \in 1..Len(columnKeys) :
           /\ columnKeys[i] \in DOMAIN columnAliases
           /\ columnAliases[columnKeys[i]] = <<" ", "Q">>
           /\ ~IsSelected(selectedColumns, columnKeys[i])

----------------------------------------------------------------------------
(* Overlapping file loads                                                  *)

\* the load at position i of loads completes by resolving
LoadSucceeds(i) == ~loads[i].corrupt /\ loads' = RemoveAt(loads, i)

\* name, sheets and Selection Map are those of one load of file f
HoldsLoadOf(f) ==
    /\ workbookName' = f.name
    /\ sheets' = readWorkbookFile(f)
    /\ activeSheetIndex' = 0
    /\ AllTrueOn(selectedColumns',
                 IF readWorkbookFile(f) = <<>> THEN {}
                 ELSE KeySetOf(readWorkbookFile(f)[1]))

\* C18: with loads in flight at the same time, in every interleaving with the
\* other operations, a workbook name is never paired with another file's
\* sheets, and the step that completes a parse leaves name, sheets and
\* rebuilt Selection Map of that very load, whichever position the load has
\* in the order of selection: the load that completes last wins.
C18_OverlappingLoadsNeverTear ==
    [][/\ \A f \in Files :
              (~f.corrupt /\ workbookName' = f.name) => sheets' = readWorkbookFile(f)
       /\ Len(loads') < Len(loads) =>
              \A i \in 1..Len(loads) : LoadSucceeds(i) => HoldsLoadOf(loads[i])]_vars

\* two loads are in flight at once, the one picked first being a re-read of
\* the workbook the store holds whole
C18_Witness ==
    /\ loads = <<FileA, FileB>>
    /\ workbookName = FileA.name
    /\ sheets = readWorkbookFile(FileA)
    /\ activeSheetIndex = 1
    /\ AllTrueOn(selectedColumns, KeySetOf(sheets[2]))

----------------------------------------------------------------------------
(* The operations as the view dispatches them                              *)

\* the sheet buttons are drawn from sheets.map, one per loaded sheet; the
\* checkboxes and alias inputs from columnKeys.map, one per column of the
\* active sheet, an alias input being disabled while its column is not
\* selected; the export button is drawn with hasWorkbook && activeSheet
NextView ==
    \/ \E p \in Payloads : SetWorkbook(p)
    \/ \E index \in 0..(Len(sheets) - 1) : SetActiveSheetIndex(index)
    \/ \E k \in AliasKeyInputs : ToggleColumn(k)
    \/ \E k \in AliasKeyInputs, a \in AliasInputs :
           IsSelected(selectedColumns, k) /\ SetColumnAlias(k, a)
    \/ \E t \in TermInputs : SetSearchTerm(t)
    \/ Reset
    \/ \E f \in Files : HandleFileChange(f)
    \/ \E i \in 1..MaxInFlight : ParseSucceed(i)
    \/ \E i \in 1..MaxInFlight : ParseFail(i)
    \/ (hasWorkbook /\ activeSheetExists /\ HandleExport)
    \/ WriterReturn
    \/ WriterThrow

SpecView == Init /\ [][NextView]_vars

\* the column keys of the sheet at activeSheetIndex, none without such a sheet
ActiveKeySet ==
    IF activeSheetIndex \in 0..(Len(sheets) - 1)
    THEN KeySetOf(sheets[activeSheetIndex + 1])
    ELSE {}

\* C19: in every state reached through setWorkbook, reset, setSearchTerm and
\* the view's dispatches, activeSheetIndex is an index of sheets (0 when no
\* sheet is loaded), the Selection Map has exactly the column keys of the
\* active sheet as its keys, and every Alias Map key is one of those keys.
C19_ViewKeepsStoreConsistent ==
    /\ IF sheets = <<>>
       THEN activeSheetIndex = 0
       ELSE activeSheetIndex \in 0..(Len(sheets) - 1)
    /\ DOMAIN selectedColumns = ActiveKeySet
    /\ DOMAIN columnAliases \subseteq ActiveKeySet

\* on the second sheet, its one column deselected and carrying an alias
C19_Witness ==
    /\ Len(sheets) = 2
    /\ activeSheetIndex = 1
    /\ ActiveKeySet # {}
    /\ \E k \in ActiveKeySet : ~selectedColumns[k] /\ k \in DOMAIN columnAliases

====
